---- MODULE Spec2Model ----
(***************************************************************************)
(* Analytics and aggregation of the FlowSync CRM.                          *)
(*                                                                         *)
(*   - the Period Bucketizer: getSalesByPeriod of the SalesByPeriod        *)
(*     component (client/src/components/reports/sales-by-period.tsx);      *)
(*   - the Metric Aggregator: DatabaseStorage.getDashboardStats            *)
(*     (server/storage.ts) behind GET /api/dashboard/stats, running        *)
(*     concurrently with the create/update/delete routes;                  *)
(*   - the list routes GET /api/tasks/due-today, /api/meetings/upcoming    *)
(*     and /api/deals/by-stage;                                            *)
(*   - requireAuth and POST /api/auth/user, DELETE /api/customers/:id      *)
(*     (server/routes.ts);                                                 *)
(*   - the browser's query cache (client/src/lib/queryClient.ts), the deal *)
(*     mutations, and what the Dashboard and Reports pages render.         *)
(*                                                                         *)
(* Time.  An instant is an integer number of ticks; a day has TicksPerDay  *)
(* ticks and tick 0 of a day is local midnight.  Day numbers count from    *)
(* 1970-01-01 in the proleptic Gregorian calendar, as JavaScript's Date.   *)
(* Money.  A stored amount is an integer number of thousandths of the      *)
(* currency unit; a reported amount is an integer number of hundredths.    *)
(* Percentages are reported in tenths of a percent.                        *)
(***************************************************************************)
EXTENDS Integers, Sequences, FiniteSets, TLC

(***************************************************************************)
(* Bounds of the model.                                                    *)
(***************************************************************************)
TicksPerDay == 2
\* number of consecutive days from which the browser's clock is drawn
HorizonDays == 366
\* largest number of deals in the list the client receives
MaxDeals == 2
\* number of ticks the server's clock advances
MaxTicks == 1
\* number of create/update/delete requests served
MaxMutations == 1
\* number of dashboard requests one client makes one after the other
MaxCalls == 2
\* number of requests to the authentication code that are in flight together
MaxRequests == 2

(***************************************************************************)
(* null / undefined, and optional values.                                  *)
(***************************************************************************)
Null == << >>
Some(v) == << v >>
IsNull(o) == o = << >>
Val(o) == o[1]

(***************************************************************************)
(* JavaScript Date, local time.                                            *)
(***************************************************************************)
\* day number of the civil date y-m-d, m in 1..12 (ECMAScript MakeDay, Day)
DaysFromCivil(y, m, d) ==
  LET yy  == IF m <= 2 THEN y - 1 ELSE y
      era == yy \div 400
      yoe == yy - era * 400
      mp  == IF m > 2 THEN m - 3 ELSE m + 9
      doy == (153 * mp + 2) \div 5 + d - 1
      doe == yoe * 365 + yoe \div 4 - yoe \div 100 + doy
  IN  era * 146097 + doe - 719468

\* the civil date <<year, month 1..12, day>> of a day number
CivilFromDays(z) ==
  LET zz  == z + 719468
      era == zz \div 146097
      doe == zz - era * 146097
      yoe == (doe - doe \div 1460 + doe \div 36524 - doe \div 146096) \div 365
      doy == doe - (365 * yoe + yoe \div 4 - yoe \div 100)
      mp  == (5 * doy + 2) \div 153
      d   == doy - (153 * mp + 2) \div 5 + 1
      m   == IF mp < 10 THEN mp + 3 ELSE mp - 9
      y   == yoe + era * 400
  IN  << IF m <= 2 THEN y + 1 ELSE y, m, d >>

DayOf(t) == t \div TicksPerDay
TimeOfDay(t) == t % TicksPerDay

getFullYear(t) == CivilFromDays(DayOf(t))[1]
\* month index 0..11
getMonth(t) == CivilFromDays(DayOf(t))[2] - 1
\* day of the month 1..31
getDate(t) == CivilFromDays(DayOf(t))[3]

\* MakeDay(year, month, date): month and date may lie outside their ranges and
\* carry over into the neighbouring months and years
MakeDay(y, m, d) == DaysFromCivil(y + m \div 12, (m % 12) + 1, 1) + d - 1

\* new Date(year, monthIndex, day): local midnight of that day
NewDate(y, m, d) == MakeDay(y, m, d) * TicksPerDay

\* date.setMonth(m): keeps the day of the month and the time of day
setMonth(t, m) ==
  LET c == CivilFromDays(DayOf(t))
  IN  MakeDay(c[1], m, c[3]) * TicksPerDay + TimeOfDay(t)

\* date.setDate(d): keeps year, month and time of day
setDate(t, d) ==
  LET c == CivilFromDays(DayOf(t))
  IN  MakeDay(c[1], c[2] - 1, d) * TicksPerDay + TimeOfDay(t)

\* date.setHours(0, 0, 0, 0)
setHoursZero(t) == DayOf(t) * TicksPerDay

MonthShort ==
  << "Jan", "Feb", "Mar", "Apr", "May", "Jun",
     "Jul", "Aug", "Sep", "Oct", "Nov", "Dec" >>

\* date.toLocaleString('default', { month: 'short' })
toLocaleMonthShort(t) == MonthShort[getMonth(t) + 1]

(***************************************************************************)
(* Rounding of quotients: the nearest integer to a / b, halves away from   *)
(* zero, for b # 0.                                                        *)
(***************************************************************************)
Abs(a) == IF a >= 0 THEN a ELSE 0 - a

RoundDiv(a, b) ==
  LET q == (2 * Abs(a) + Abs(b)) \div (2 * Abs(b))
  IN  IF (a >= 0) = (b > 0) THEN q ELSE 0 - q

(***************************************************************************)
(* Period Bucketizer (sales-by-period.tsx).                                *)
(***************************************************************************)
PeriodTypes == { "weekly", "monthly", "quarterly", "yearly" }

\* values the Select's onValueChange may hand to setPeriod: the cast
\* `value as PeriodType` checks nothing at run time
PeriodInputs == PeriodTypes \cup { "daily" }

NewPeriod(name, start, end) ==
  [ name |-> name, startDate |-> start, endDate |-> end, value |-> 0, count |-> 0 ]

\* WeeklyPeriods with a seven-day window counted from its first to its last
\* day: the start is six days before the end
WeeklyPeriodsSixDays(now) ==
  LET date == getDate(now)
      P(i) == NewPeriod("Week " \o ToString(8 - i),
                        setDate(now, date - (i * 7 + 6)),
                        setDate(now, date - i * 7))
  IN  << P(7), P(6), P(5), P(4), P(3), P(2), P(1), P(0) >>

\* for (let i = 7; i >= 0; i--) periods.push(...)
WeeklyPeriods(now) ==
  LET date == getDate(now)
      P(i) == NewPeriod("Week " \o ToString(8 - i),
                        setDate(now, date - (i * 7 + 7)),
                        setDate(now, date - i * 7))
  IN  << P(7), P(6), P(5), P(4), P(3), P(2), P(1), P(0) >>

\* for (let i = 5; i >= 0; i--) periods.push(...)
MonthlyPeriods(now) ==
  LET nowMonth == getMonth(now)
      P(i) == LET month == setMonth(now, nowMonth - i)
                  y == getFullYear(month)
                  m == getMonth(month)
              IN  NewPeriod(toLocaleMonthShort(month), NewDate(y, m, 1), NewDate(y, m + 1, 0))
  IN  << P(5), P(4), P(3), P(2), P(1), P(0) >>

\* QuarterlyPeriods with the quotient truncated toward zero (parseInt or `| 0`
\* in place of Math.floor)
QuarterlyPeriodsTruncated(now) ==
  LET nowMonth == getMonth(now)
      nowYear == getFullYear(now)
      Trunc3(x) == IF x >= 0 THEN x \div 3 ELSE 0 - ((0 - x) \div 3)
      P(i) == LET quarter == Trunc3(nowMonth - i * 3) + 1
                  year == nowYear - (IF quarter < 1 THEN 1 ELSE 0)
                  adjustedQuarter == IF quarter < 1 THEN quarter + 4 ELSE quarter
              IN  NewPeriod("Q" \o ToString(adjustedQuarter) \o " " \o ToString(year),
                            NewDate(year, (adjustedQuarter - 1) * 3, 1),
                            NewDate(year, adjustedQuarter * 3, 0))
  IN  << P(3), P(2), P(1), P(0) >>

\* for (let i = 3; i >= 0; i--) periods.push(...)
QuarterlyPeriods(now) ==
  LET nowMonth == getMonth(now)
      nowYear == getFullYear(now)
      P(i) == LET quarter == ((nowMonth - i * 3) \div 3) + 1
                  year == nowYear - (IF quarter < 1 THEN 1 ELSE 0)
                  adjustedQuarter == IF quarter < 1 THEN quarter + 4 ELSE quarter
              IN  NewPeriod("Q" \o ToString(adjustedQuarter) \o " " \o ToString(year),
                            NewDate(year, (adjustedQuarter - 1) * 3, 1),
                            NewDate(year, adjustedQuarter * 3, 0))
  IN  << P(3), P(2), P(1), P(0) >>

\* YearlyPeriods with the loop written `i > 0`: the current year is missing
YearlyPeriodsShort(now) ==
  LET nowYear == getFullYear(now)
      P(i) == LET year == nowYear - i
              IN  NewPeriod(ToString(year), NewDate(year, 0, 1), NewDate(year, 11, 31))
  IN  << P(4), P(3), P(2), P(1) >>

\* for (let i = 4; i >= 0; i--) periods.push(...)
YearlyPeriods(now) ==
  LET nowYear == getFullYear(now)
      P(i) == LET year == nowYear - i
              IN  NewPeriod(ToString(year), NewDate(year, 0, 1), NewDate(year, 11, 31))
  IN  << P(4), P(3), P(2), P(1), P(0) >>

\* the if / else-if chain: no branch for any other value, periods stays []
GeneratePeriods(p, now) ==
  IF p = "weekly" THEN WeeklyPeriods(now)
  ELSE IF p = "monthly" THEN MonthlyPeriods(now)
  ELSE IF p = "quarterly" THEN QuarterlyPeriods(now)
  ELSE IF p = "yearly" THEN YearlyPeriods(now)
  ELSE << >>

\* dealDate >= p.startDate && dealDate <= p.endDate, for a deal with createdAt
InPeriod(deal, p) ==
  /\ ~IsNull(deal.createdAt)
  /\ Val(deal.createdAt) >= p.startDate
  /\ Val(deal.createdAt) <= p.endDate

\* Number(deal.value || 0)
DealValue(deal) == IF IsNull(deal.value) THEN 0 ELSE Val(deal.value)

RECURSIVE SumInPeriod(_, _, _)
SumInPeriod(ds, p, n) ==
  IF n = 0 THEN 0
  ELSE SumInPeriod(ds, p, n - 1) + (IF InPeriod(ds[n], p) THEN DealValue(ds[n]) ELSE 0)

CountInPeriod(ds, p) == Cardinality({ n \in DOMAIN ds : InPeriod(ds[n], p) })

\* deals.forEach(deal => periods.forEach(p => ...))
Aggregate(ps, ds) ==
  [ k \in DOMAIN ps |->
      LET p == ps[k]
      IN  [ p EXCEPT !.value = SumInPeriod(ds, p, Len(ds)),
                     !.count = CountInPeriod(ds, p) ] ]

\* Math.round(p.value * 100) / 100, in hundredths
RoundToCents(v) == RoundDiv(v, 10)

\* PeriodsOf without the early return on an empty list
PeriodsOfNoEarlyReturn(ds, p, now) ==
  IF IsNull(ds) THEN << >>
  ELSE Aggregate(GeneratePeriods(p, now), Val(ds))

\* the array `periods` after the aggregation; [] on the early return
PeriodsOf(ds, p, now) ==
  IF IsNull(ds) \/ Len(Val(ds)) = 0 THEN << >>
  ELSE Aggregate(GeneratePeriods(p, now), Val(ds))

\* periods.map(p => ({ name, value: Math.round(p.value * 100) / 100, count }))
CleanUp(ps) ==
  [ k \in DOMAIN ps |->
      LET p == ps[k]
      IN  [ name |-> p.name, value |-> RoundToCents(p.value), count |-> p.count ] ]

(***************************************************************************)
(* JavaScript numbers that come out of a division.                         *)
(***************************************************************************)
Finite(n) == [ kind |-> "finite", v |-> n ]
NaN == [ kind |-> "NaN", v |-> 0 ]
Infinity(sign) == [ kind |-> "Infinity", v |-> sign ]

\* parseFloat(((a / b) * scale).toFixed(..)), as an integer number of the
\* reported unit when finite
Quotient(a, b, scale) ==
  IF b # 0 THEN Finite(RoundDiv(a * scale, b))
  ELSE IF a = 0 THEN NaN
  ELSE Infinity(IF a > 0 THEN 1 ELSE 0 - 1)

(***************************************************************************)
(* The entity store (shared/schema.ts) and the clock of the server.        *)
(***************************************************************************)
VARIABLES
  clock,        \* the server's current instant
  customers,    \* rows of table customers: [id, createdAt]
  deals,        \* rows of table deals: [id, stage, value, createdAt]
  tasks,        \* rows of table tasks: [id, dealId, status, dueDate]
  meetings,     \* rows of table meetings: [id, customerId, status, startTime, createdAt]
  nextId,       \* the serial id sequences, one per table
  mutations,    \* number of create/update/delete requests served so far
  pc,           \* position of the GET /api/dashboard/stats request
  loc,          \* local variables of getDashboardStats
  response,     \* the answer of GET /api/dashboard/stats, Null before it
  snapshots,    \* history: the store states that existed during the call
  failedQuery,  \* history: the query that was rejected, Null if none was
  calls,        \* history: the calls of getDashboardStats that have returned
  dealsByStage  \* the answer of GET /api/deals/by-stage, Null before it

(***************************************************************************)
(* The SalesByPeriod component in the browser.                             *)
(***************************************************************************)
VARIABLES
  browserNow,   \* the browser's clock
  period,       \* useState<PeriodType>("monthly")
  dealsData,    \* useQuery data of ["/api/deals"]: Null while loading
  periods,      \* the array `periods` of the last getSalesByPeriod call
  chartData,    \* what the last getSalesByPeriod call returned
  thrown        \* the exception the last getSalesByPeriod call threw, Null if none

(***************************************************************************)
(* The answers of the list routes.                                         *)
(***************************************************************************)
VARIABLES
  tasksDue,     \* GET /api/tasks/due-today: [today, rows], Null before it
  upcoming      \* GET /api/meetings/upcoming: [now, rows], Null before it

(***************************************************************************)
(* Table users and the requests that pass through requireAuth or           *)
(* POST /api/auth/user.                                                    *)
(***************************************************************************)
VARIABLES
  users,        \* rows of table users: [id, firebaseUid, email, role]
  reqs          \* per request: its headers and body, its position, its answer

(***************************************************************************)
(* The DELETE /api/customers/:id request.                                  *)
(***************************************************************************)
VARIABLES
  del           \* its position, its :id, its answer, and the rows it deleted

(***************************************************************************)
(* The browser: the query cache of queryClient and the deal mutation of    *)
(* DealForm / DealDetail.                                                  *)
(***************************************************************************)
VARIABLES
  cache,        \* per query key: status, data, isInvalidated, fetchStatus
  mut           \* the deal mutation: its status (idle, sent, success, error), its request

storeVars == << customers, deals, tasks, meetings, nextId, mutations >>
callVars == << pc, loc, response, snapshots, failedQuery >>
serverVars == << clock, customers, deals, tasks, meetings, nextId, mutations,
                pc, loc, response, snapshots, failedQuery >>
clientVars == << browserNow, period, dealsData, periods, chartData, thrown >>
reportVars == << calls, dealsByStage >>
listVars == << tasksDue, upcoming >>
authVars == << users, reqs >>
customerVars == << del >>
cacheVars == << cache, mut >>
restVars == << listVars, authVars, customerVars, cacheVars >>
vars == << clock, customers, deals, tasks, meetings, nextId, mutations,
           pc, loc, response, snapshots, failedQuery, calls, dealsByStage,
           browserNow, period, dealsData, periods, chartData, thrown,
           tasksDue, upcoming, users, reqs, del, cache, mut >>

(***************************************************************************)
(* Inputs of the SalesByPeriod component.                                  *)
(***************************************************************************)
FirstDay == DaysFromCivil(2024, 1, 1)

\* every tick of HorizonDays consecutive days: the leap year 2024
NowInputs ==
  { d * TicksPerDay + tod :
      d \in FirstDay .. (FirstDay + HorizonDays - 1), tod \in 0 .. (TicksPerDay - 1) }

\* a deal created on the last day of January 2024 after midnight and a deal
\* without value created at midnight of the day after.  The amount 250.004 has
\* thousandths and is not halfway between two hundredths.
\* rows of GET /api/deals: createdAt is NOT NULL in the schema, value is nullable
DealInputs ==
  { [ createdAt |-> Some(NewDate(2024, 0, 31) + 1), value |-> Some(250004) ],
    [ createdAt |-> Some(NewDate(2024, 1, 1)), value |-> Null ] }

RECURSIVE SeqsUpTo(_, _)
SeqsUpTo(S, n) ==
  IF n = 0 THEN { << >> }
  ELSE LET shorter == SeqsUpTo(S, n - 1)
       IN  shorter \cup { Append(q, x) : q \in shorter, x \in S }

DealLists == SeqsUpTo(DealInputs, MaxDeals)

InitClient ==
  /\ browserNow \in NowInputs
  /\ period = "monthly"
  /\ dealsData = Null
  /\ periods = << >>
  /\ chartData = << >>
  /\ thrown = Null

\* a state of the browser in which the component is not mounted
ClientIdle ==
  /\ browserNow = FirstDay * TicksPerDay
  /\ period = "monthly"
  /\ dealsData = Null
  /\ periods = << >>
  /\ chartData = << >>
  /\ thrown = Null

\* const chartData = getSalesByPeriod(), evaluated on every render with
\* now = new Date(); the function has no throw statement
getSalesByPeriod(ds, p) ==
  /\ periods' = PeriodsOf(ds, p, browserNow)
  /\ chartData' = CleanUp(periods')
  /\ thrown' = Null

\* the query of ["/api/deals"] resolves and the component renders again
DealsLoaded(data) ==
  /\ IsNull(dealsData)
  /\ dealsData' = Some(data)
  /\ getSalesByPeriod(Some(data), period)
  /\ UNCHANGED << browserNow, period >>
  /\ UNCHANGED serverVars
  /\ UNCHANGED reportVars
  /\ UNCHANGED restVars

\* onValueChange={(value) => setPeriod(value as PeriodType)}, then a render
SetPeriod(value) ==
  /\ value # period
  /\ period' = value
  /\ getSalesByPeriod(dealsData, value)
  /\ UNCHANGED << browserNow, dealsData >>
  /\ UNCHANGED serverVars
  /\ UNCHANGED reportVars
  /\ UNCHANGED restVars

(***************************************************************************)
(* Store queries of getDashboardStats (server/storage.ts).  A comparison   *)
(* with a NULL column is not true in SQL, so the row is left out.          *)
(***************************************************************************)
\* count(*)::int
Count(rows) == Cardinality(rows)

RECURSIVE SumValues(_)
SumValues(rows) ==
  IF rows = {} THEN 0
  ELSE LET r == CHOOSE x \in rows : TRUE
       IN  (IF IsNull(r.value) THEN 0 ELSE Val(r.value)) + SumValues(rows \ { r })

\* TotalSalesQuery over the deals that were won only
TotalSalesQueryWon(ds) == SumValues({ d \in ds : d.stage = "closed_won" })

\* COALESCE(sum(deals.value)::float, 0); Number(..) || 0
TotalSalesQuery(ds) == SumValues(ds)

\* where(eq(deals.stage, 'closed_won'))
WonDealsQuery(ds) == Count({ d \in ds : d.stage = "closed_won" })

ActiveStages == { "lead", "qualification", "proposal", "negotiation" }

\* where(or(eq(stage, 'lead'), eq(stage, 'qualification'), ...))
ActiveDealsQuery(ds) == Count({ d \in ds : d.stage \in ActiveStages })

firstDayCurrentMonth(now) == NewDate(getFullYear(now), getMonth(now), 1)
firstDayPreviousMonth(now) == NewDate(getFullYear(now), getMonth(now) - 1, 1)
lastDayPreviousMonth(now) == NewDate(getFullYear(now), getMonth(now), 0)

\* where(gte(createdAt, firstDayCurrentMonth))
CurrentMonthQuery(rows, now) ==
  Count({ r \in rows : r.createdAt >= firstDayCurrentMonth(now) })

\* where(and(gte(createdAt, firstDayPreviousMonth), lte(createdAt, lastDayPreviousMonth)))
PreviousMonthQuery(rows, now) ==
  Count({ r \in rows : /\ r.createdAt >= firstDayPreviousMonth(now)
                       /\ r.createdAt <= lastDayPreviousMonth(now) })

\* where(and(gte(meetings.startTime, now), eq(meetings.status, 'scheduled')))
UpcomingMeetingsQuery(ms, now) ==
  Count({ m \in ms : m.startTime >= now /\ m.status = Some("scheduled") })

\* todayDate.setHours(0, 0, 0, 0)
StartOfDay(t) == setHoursZero(t)
\* tomorrowDate.setDate(tomorrowDate.getDate() + 1)
StartOfNextDay(today) == setDate(today, getDate(today) + 1)

\* where(and(gte(dueDate, today), lt(dueDate, tomorrow),
\*           not(eq(status, 'completed')), not(eq(status, 'cancelled'))))
TasksDueTodayQuery(ts, today, tomorrow) ==
  Count({ t \in ts : /\ ~IsNull(t.dueDate)
                     /\ Val(t.dueDate) >= today
                     /\ Val(t.dueDate) < tomorrow
                     /\ ~IsNull(t.status)
                     /\ Val(t.status) # "completed"
                     /\ Val(t.status) # "cancelled" })

\* where(eq(tasks.status, 'completed'))
CompletedTasksQuery(ts) == Count({ t \in ts : t.status = Some("completed") })

(***************************************************************************)
(* The arithmetic of getDashboardStats.                                    *)
(***************************************************************************)
\* totalDeals === 0 ? 0 : totalSales / totalDeals, then toFixed(2): hundredths
AvgDealSize(totalSales, totalDeals) ==
  IF totalDeals = 0 THEN Finite(0) ELSE Quotient(totalSales, totalDeals * 10, 1)

\* Percentage without the guard on the denominator
PercentageUnguarded(part, total) == Quotient(part, total, 1000)

\* total === 0 ? 0 : (part / total) * 100, then toFixed(1): tenths of a percent
Percentage(part, total) ==
  IF total = 0 THEN Finite(0) ELSE Quotient(part, total, 1000)

\* previous === 0 ? 0 : ((current - previous) / previous) * 100, then toFixed(1)
MonthChange(current, previous) ==
  IF previous = 0 THEN Finite(0) ELSE Quotient(current - previous, previous, 1000)

\* RetentionRate with the retained customers divided by the customers at the
\* end of the period
RetentionRateOfEnd(endCustomers, newCustomers) ==
  LET startingCustomers == endCustomers - newCustomers
  IN  IF startingCustomers = 0 THEN Finite(0)
      ELSE Quotient(endCustomers - newCustomers, endCustomers, 1000)

\* startingCustomers === 0 ? 0 : ((end - new) / startingCustomers) * 100
RetentionRate(endCustomers, newCustomers) ==
  LET startingCustomers == endCustomers - newCustomers
  IN  IF startingCustomers = 0 THEN Finite(0)
      ELSE Quotient(endCustomers - newCustomers, startingCustomers, 1000)

\* the object returned at the end of getDashboardStats
DashboardStats(l) ==
  [ customerCount         |-> l.customerCount,
    customerGrowth        |-> MonthChange(l.currentCount, l.previousCount),
    activeDeals           |-> l.activeDeals,
    dealChange            |-> MonthChange(l.currentDealCount, l.previousDealCount),
    upcomingMeetings      |-> l.upcomingMeetings,
    meetingChange         |-> MonthChange(l.currentMeetingCount, l.previousMeetingCount),
    tasksDueToday         |-> l.tasksDueToday,
    totalTasks            |-> l.totalTasks,
    taskCompletion        |-> Percentage(l.completedTasks, l.totalTasks),
    totalSales            |-> RoundDiv(l.totalSales, 10),
    avgDealSize           |-> AvgDealSize(l.totalSales, l.totalDeals),
    winRate               |-> Percentage(l.wonDeals, l.totalDeals),
    customerRetentionRate |-> RetentionRate(l.customerCount, l.currentCount) ]

\* the local variables before the first query has answered
NoLocals ==
  [ customerCount |-> 0, totalSales |-> 0, totalDeals |-> 0, wonDeals |-> 0,
    now |-> Null, currentCount |-> 0, previousCount |-> 0, activeDeals |-> 0,
    currentDealCount |-> 0, previousDealCount |-> 0, upcomingMeetings |-> 0,
    currentMeetingCount |-> 0, previousMeetingCount |-> 0,
    todayDate |-> Null, tasksDueToday |-> 0, completedTasks |-> 0, totalTasks |-> 0 ]

\* the queries in the order getDashboardStats awaits them
QueryOrder ==
  << "customerCountResult", "totalSalesResult", "totalDealsResult", "wonDealsResult",
     "currentMonthCustomers", "previousMonthCustomers", "activeDealsResult",
     "currentMonthDeals", "previousMonthDeals", "upcomingMeetingsResult",
     "currentMonthMeetings", "previousMonthMeetings", "tasksDueTodayResult",
     "completedTasksResult", "totalTasksResult" >>

Awaiting == { QueryOrder[i] : i \in DOMAIN QueryOrder }

Store == [ customers |-> customers, deals |-> deals, tasks |-> tasks, meetings |-> meetings ]

(***************************************************************************)
(* GET /api/dashboard/stats: the route handler and getDashboardStats, one  *)
(* step per awaited query.  A step is the store answering the query and    *)
(* the code that runs until the next await.                                *)
(***************************************************************************)
\* the answer `at` arrives, `field` is set from it and `next` is awaited
Answer(at, field, value, next) ==
  /\ pc = at
  /\ loc' = [ loc EXCEPT ![field] = value ]
  /\ pc' = next
  /\ UNCHANGED << clock, response, snapshots, failedQuery >>
  /\ UNCHANGED storeVars
  /\ UNCHANGED clientVars
  /\ UNCHANGED restVars
  /\ UNCHANGED reportVars

\* DashboardRequest with every request recorded as a task of the store
DashboardRequestRecorded ==
  /\ pc = "idle"
  /\ pc' = "customerCountResult"
  /\ loc' = NoLocals
  /\ snapshots' = { Store }
  /\ tasks' = tasks \cup { [ id |-> nextId.tasks, status |-> Some("completed"), dueDate |-> Null ] }
  /\ nextId' = [ nextId EXCEPT !.tasks = @ + 1 ]
  /\ UNCHANGED << clock, response, failedQuery, customers, deals, meetings, mutations >>
  /\ UNCHANGED clientVars
  /\ UNCHANGED restVars
  /\ UNCHANGED reportVars

\* the request passes requireAuth and getDashboardStats issues its first query
DashboardRequest ==
  /\ pc = "idle"
  /\ pc' = "customerCountResult"
  /\ loc' = NoLocals
  /\ snapshots' = { Store }
  /\ UNCHANGED << clock, response, failedQuery >>
  /\ UNCHANGED storeVars
  /\ UNCHANGED clientVars
  /\ UNCHANGED restVars
  /\ UNCHANGED reportVars

CustomerCountAnswer ==
  Answer("customerCountResult", "customerCount", Count(customers), "totalSalesResult")

TotalSalesAnswer ==
  Answer("totalSalesResult", "totalSales", TotalSalesQuery(deals), "totalDealsResult")

TotalDealsAnswer ==
  Answer("totalDealsResult", "totalDeals", Count(deals), "wonDealsResult")

\* after the answer: const now = new Date()
WonDealsAnswer ==
  /\ pc = "wonDealsResult"
  /\ loc' = [ loc EXCEPT !.wonDeals = WonDealsQuery(deals), !.now = Some(clock) ]
  /\ pc' = "currentMonthCustomers"
  /\ UNCHANGED << clock, response, snapshots, failedQuery >>
  /\ UNCHANGED storeVars
  /\ UNCHANGED clientVars
  /\ UNCHANGED restVars
  /\ UNCHANGED reportVars

CurrentMonthCustomersAnswer ==
  Answer("currentMonthCustomers", "currentCount",
         CurrentMonthQuery(customers, Val(loc.now)), "previousMonthCustomers")

PreviousMonthCustomersAnswer ==
  Answer("previousMonthCustomers", "previousCount",
         PreviousMonthQuery(customers, Val(loc.now)), "activeDealsResult")

ActiveDealsAnswer ==
  Answer("activeDealsResult", "activeDeals", ActiveDealsQuery(deals), "currentMonthDeals")

CurrentMonthDealsAnswer ==
  Answer("currentMonthDeals", "currentDealCount",
         CurrentMonthQuery(deals, Val(loc.now)), "previousMonthDeals")

PreviousMonthDealsAnswer ==
  Answer("previousMonthDeals", "previousDealCount",
         PreviousMonthQuery(deals, Val(loc.now)), "upcomingMeetingsResult")

UpcomingMeetingsAnswer ==
  Answer("upcomingMeetingsResult", "upcomingMeetings",
         UpcomingMeetingsQuery(meetings, Val(loc.now)), "currentMonthMeetings")

CurrentMonthMeetingsAnswer ==
  Answer("currentMonthMeetings", "currentMeetingCount",
         CurrentMonthQuery(meetings, Val(loc.now)), "previousMonthMeetings")

\* after the answer: const todayDate = new Date(); todayDate.setHours(0, 0, 0, 0)
PreviousMonthMeetingsAnswer ==
  /\ pc = "previousMonthMeetings"
  /\ loc' = [ loc EXCEPT !.previousMeetingCount = PreviousMonthQuery(meetings, Val(loc.now)),
                         !.todayDate = Some(StartOfDay(clock)) ]
  /\ pc' = "tasksDueTodayResult"
  /\ UNCHANGED << clock, response, snapshots, failedQuery >>
  /\ UNCHANGED storeVars
  /\ UNCHANGED clientVars
  /\ UNCHANGED restVars
  /\ UNCHANGED reportVars

TasksDueTodayAnswer ==
  Answer("tasksDueTodayResult", "tasksDueToday",
         TasksDueTodayQuery(tasks, Val(loc.todayDate), StartOfNextDay(Val(loc.todayDate))),
         "completedTasksResult")

CompletedTasksAnswer ==
  Answer("completedTasksResult", "completedTasks", CompletedTasksQuery(tasks),
         "totalTasksResult")

\* res.json(stats)
OkResponse(stats) == [ status |-> 200, body |-> stats ]

\* res.status(500).json({ message: 'Error fetching dashboard stats' })
ErrorResponse == [ status |-> 500, body |-> [ message |-> "Error fetching dashboard stats" ] ]

\* the last answer: getDashboardStats returns and the route sends the object
TotalTasksAnswer ==
  /\ pc = "totalTasksResult"
  /\ loc' = [ loc EXCEPT !.totalTasks = Count(tasks) ]
  /\ response' = Some(OkResponse(DashboardStats(loc')))
  /\ pc' = "done"
  /\ calls' = Append(calls, [ before |-> snapshots, after |-> Store,
                               now |-> loc.now, todayDate |-> loc.todayDate,
                               body |-> DashboardStats(loc') ])
  /\ UNCHANGED << clock, snapshots, failedQuery, dealsByStage >>
  /\ UNCHANGED storeVars
  /\ UNCHANGED clientVars
  /\ UNCHANGED restVars

\* QueryFails with the rejection swallowed inside getDashboardStats: the
\* object is built from the results gathered so far and sent
QueryFailsPartial ==
  /\ pc \in Awaiting
  /\ failedQuery' = Some(pc)
  /\ response' = Some(OkResponse(DashboardStats(loc)))
  /\ pc' = "done"
  /\ UNCHANGED << clock, loc, snapshots >>
  /\ UNCHANGED storeVars
  /\ UNCHANGED clientVars
  /\ UNCHANGED restVars
  /\ UNCHANGED reportVars

\* the awaited query rejects: the exception leaves getDashboardStats and is
\* caught by the route's catch block
QueryFails ==
  /\ pc \in Awaiting
  /\ failedQuery' = Some(pc)
  /\ response' = Some(ErrorResponse)
  /\ pc' = "done"
  /\ UNCHANGED << clock, loc, snapshots >>
  /\ UNCHANGED storeVars
  /\ UNCHANGED clientVars
  /\ UNCHANGED restVars
  /\ UNCHANGED reportVars

(***************************************************************************)
(* The create / update / delete routes (routes.ts, storage.ts).  Each is   *)
(* one statement on the store; createdAt is the column default now().      *)
(***************************************************************************)
ClockStart == NewDate(2024, 1, 1) - 1

\* text column without validation of its content
StageInputs == { "lead", "closed_won" }
ValueInputs == { Null, Some(250004) }
TaskStatusInputs == { Null, Some("pending"), Some("completed") }
DueDateInputs == { Null, Some(NewDate(2024, 1, 1)) }
MeetingStatusInputs == { Some("scheduled"), Some("cancelled") }
StartTimeInputs == { NewDate(2024, 1, 1) }

StoreAfter ==
  [ customers |-> customers', deals |-> deals', tasks |-> tasks', meetings |-> meetings' ]

\* the number of requests served beside the dashboard call is bounded
Admitted == mutations < MaxMutations

\* bookkeeping shared by the routes below
Served ==
  /\ mutations' = mutations + 1
  /\ snapshots' = IF pc \in Awaiting THEN snapshots \cup { StoreAfter } ELSE snapshots
  /\ UNCHANGED << clock, pc, loc, response, failedQuery >>
  /\ UNCHANGED clientVars
  /\ UNCHANGED restVars
  /\ UNCHANGED reportVars

\* POST /api/customers
CreateCustomer ==
  /\ Admitted
  /\ customers' = customers \cup { [ id |-> nextId.customers, createdAt |-> clock ] }
  /\ nextId' = [ nextId EXCEPT !.customers = @ + 1 ]
  /\ UNCHANGED << deals, tasks, meetings >>
  /\ Served

\* POST /api/deals: customerId references an existing customer
CreateDeal(customerId, stage, value) ==
  /\ Admitted
  /\ customerId \in { c.id : c \in customers }
  /\ deals' = deals \cup { [ id |-> nextId.deals, customerId |-> customerId,
                             stage |-> stage, value |-> value, createdAt |-> clock ] }
  /\ nextId' = [ nextId EXCEPT !.deals = @ + 1 ]
  /\ UNCHANGED << customers, tasks, meetings >>
  /\ Served

\* PUT /api/deals/:id with { stage }
UpdateDeal(id, stage) ==
  /\ Admitted
  /\ \E d \in deals :
       /\ d.id = id
       /\ d.stage # stage
       /\ deals' = (deals \ { d }) \cup { [ d EXCEPT !.stage = stage ] }
  /\ UNCHANGED << customers, tasks, meetings, nextId >>
  /\ Served

\* DELETE /api/deals/:id
DeleteDeal(id) ==
  /\ Admitted
  /\ \E d \in deals : d.id = id /\ deals' = deals \ { d }
  /\ UNCHANGED << customers, tasks, meetings, nextId >>
  /\ Served

\* POST /api/tasks, of a task without deal (deal_id is nullable)
CreateTask(status, dueDate) ==
  /\ Admitted
  /\ tasks' = tasks \cup { [ id |-> nextId.tasks, dealId |-> Null, status |-> status,
                             dueDate |-> dueDate ] }
  /\ nextId' = [ nextId EXCEPT !.tasks = @ + 1 ]
  /\ UNCHANGED << customers, deals, meetings >>
  /\ Served

\* PUT /api/tasks/:id with { status }
UpdateTask(id, status) ==
  /\ Admitted
  /\ \E t \in tasks :
       /\ t.id = id
       /\ t.status # status
       /\ tasks' = (tasks \ { t }) \cup { [ t EXCEPT !.status = status ] }
  /\ UNCHANGED << customers, deals, meetings, nextId >>
  /\ Served

\* DELETE /api/tasks/:id
DeleteTask(id) ==
  /\ Admitted
  /\ \E t \in tasks : t.id = id /\ tasks' = tasks \ { t }
  /\ UNCHANGED << customers, deals, meetings, nextId >>
  /\ Served

\* POST /api/meetings, of a meeting without customer (customer_id is nullable)
CreateMeeting(status, startTime) ==
  /\ Admitted
  /\ meetings' = meetings \cup { [ id |-> nextId.meetings, customerId |-> Null,
                                   status |-> status,
                                   startTime |-> startTime, createdAt |-> clock ] }
  /\ nextId' = [ nextId EXCEPT !.meetings = @ + 1 ]
  /\ UNCHANGED << customers, deals, tasks >>
  /\ Served

\* PUT /api/meetings/:id with { status }
UpdateMeeting(id, status) ==
  /\ Admitted
  /\ \E m \in meetings :
       /\ m.id = id
       /\ m.status # status
       /\ meetings' = (meetings \ { m }) \cup { [ m EXCEPT !.status = status ] }
  /\ UNCHANGED << customers, deals, tasks, nextId >>
  /\ Served

\* DELETE /api/meetings/:id
DeleteMeeting(id) ==
  /\ Admitted
  /\ \E m \in meetings : m.id = id /\ meetings' = meetings \ { m }
  /\ UNCHANGED << customers, deals, tasks, nextId >>
  /\ Served

\* time passes on the server
Tick ==
  /\ clock < ClockStart + MaxTicks
  /\ clock' = clock + 1
  /\ UNCHANGED storeVars
  /\ UNCHANGED callVars
  /\ UNCHANGED clientVars
  /\ UNCHANGED restVars
  /\ UNCHANGED reportVars

(***************************************************************************)
(* Initial states.                                                         *)
(***************************************************************************)
\* rows created in the middle of the month before
SeedDate == NewDate(2024, 0, 15)

EmptyStore == [ customers |-> {}, deals |-> {}, tasks |-> {}, meetings |-> {} ]

SeededStore ==
  [ customers |-> { [ id |-> 1, createdAt |-> SeedDate ] },
    deals     |-> { [ id |-> 1, customerId |-> 1, stage |-> "closed_won",
                      value |-> Some(100000), createdAt |-> SeedDate ] },
    tasks     |-> { [ id |-> 1, dealId |-> Null, status |-> Some("completed"),
                      dueDate |-> Some(ClockStart) ] },
    meetings  |-> { [ id |-> 1, customerId |-> Some(1), status |-> Some("scheduled"),
                      startTime |-> NewDate(2024, 1, 1) + 1, createdAt |-> SeedDate ] } ]

InitStores == { EmptyStore, SeededStore }

InitServer ==
  /\ clock = ClockStart
  /\ \E st \in InitStores :
       /\ customers = st.customers
       /\ deals = st.deals
       /\ tasks = st.tasks
       /\ meetings = st.meetings
       /\ nextId = [ customers |-> Cardinality(st.customers) + 1,
                     deals     |-> Cardinality(st.deals) + 1,
                     tasks     |-> Cardinality(st.tasks) + 1,
                     meetings  |-> Cardinality(st.meetings) + 1 ]
  /\ mutations = 0
  /\ pc = "idle"
  /\ loc = NoLocals
  /\ response = Null
  /\ snapshots = {}
  /\ failedQuery = Null
  /\ calls = << >>
  /\ dealsByStage = Null

\* the server before any request, with an empty store
ServerIdle ==
  /\ clock = ClockStart
  /\ customers = {}
  /\ deals = {}
  /\ tasks = {}
  /\ meetings = {}
  /\ nextId = [ customers |-> 1, deals |-> 1, tasks |-> 1, meetings |-> 1 ]
  /\ mutations = 0
  /\ pc = "idle"
  /\ loc = NoLocals
  /\ response = Null
  /\ snapshots = {}
  /\ failedQuery = Null
  /\ calls = << >>
  /\ dealsByStage = Null

Ids == 1 .. (MaxMutations + 1)

(***************************************************************************)
(* Spec: the server, GET /api/dashboard/stats among concurrent requests.   *)
(***************************************************************************)
(***************************************************************************)
(* Query keys (arrays of segments) and the entries of the query cache.     *)
(***************************************************************************)
\* the deal a DealDetail and its TaskList are opened for
DealIdProps == { "1" }

StatsKey == << "/api/dashboard/stats" >>
ByStageKey == << "/api/deals/by-stage" >>
DealKey(dealId) == << "/api/deals", dealId >>
DealTasksKey(dealId) == << "/api/deals", dealId, "tasks" >>

\* the keys of Dashboard, Reports, DealsProgress, DealDetail and TaskList
QueryKeys ==
  { StatsKey, ByStageKey } \cup { DealKey(d) : d \in DealIdProps }
                           \cup { DealTasksKey(d) : d \in DealIdProps }

\* a query nobody has used yet; asOf is the number of mutations the server
\* had served when data was read, url the path that was requested for it
NoQuery ==
  [ status |-> "pending", data |-> Null, isInvalidated |-> FALSE,
    fetchStatus |-> "idle", url |-> << >>, asOf |-> 0 ]

\* the cache is empty and no mutation is under way
CacheIdle ==
  /\ cache = [ k \in QueryKeys |-> NoQuery ]
  /\ mut = [ pc |-> "idle", seen |-> 0, kind |-> "none", id |-> 0 ]

\* no list route has answered yet
ListIdle ==
  /\ tasksDue = Null
  /\ upcoming = Null

(***************************************************************************)
(* DELETE /api/customers/:id: two awaited statements, each committed on    *)
(* its own; other requests are served between them.                        *)
(***************************************************************************)
\* no DELETE /api/customers/:id has arrived
DeleteIdle == del = [ pc |-> "idle", id |-> 0, status |-> 0, deleted |-> {} ]

\* customer_id of deals and of meetings references customers.id with no
\* onDelete action: the database rejects the delete of a referenced row
Referenced(id) ==
  \/ \E d \in deals : d.customerId = id
  \/ \E m \in meetings : m.customerId = Some(id)

\* db.delete(meetings).where(eq(meetings.customerId, customerId))
deleteMeetingsByCustomerId(customerId) ==
  { m \in meetings : m.customerId # Some(customerId) }

DeleteFrame ==
  /\ UNCHANGED << clock, nextId, mutations >>
  /\ UNCHANGED callVars
  /\ UNCHANGED reportVars
  /\ UNCHANGED clientVars
  /\ UNCHANGED listVars
  /\ UNCHANGED authVars
  /\ UNCHANGED cacheVars

\* the request arrives: await storage.deleteMeetingsByCustomerId(id)
DeleteCustomerMeetings(id) ==
  /\ del.pc = "idle"
  /\ meetings' = deleteMeetingsByCustomerId(id)
  /\ del' = [ pc |-> "deleteCustomer", id |-> id, status |-> 0,
              deleted |-> meetings \ meetings' ]
  /\ UNCHANGED << customers, deals, tasks >>
  /\ DeleteFrame

\* const success = await storage.deleteCustomer(id): 500 when the database
\* rejects the delete, 404 when no row was deleted, 204 otherwise
DeleteCustomer ==
  /\ del.pc = "deleteCustomer"
  /\ IF Referenced(del.id)
     THEN /\ del' = [ del EXCEPT !.pc = "done", !.status = 500 ]
          /\ UNCHANGED customers
     ELSE /\ customers' = { c \in customers : c.id # del.id }
          /\ del' = [ del EXCEPT !.pc = "done",
                                 !.status = IF customers' = customers THEN 404 ELSE 204,
                                 !.deleted = @ \cup (customers \ customers') ]
  /\ UNCHANGED << deals, tasks, meetings >>
  /\ DeleteFrame

(***************************************************************************)
(* Authentication (requireAuth, POST /api/auth/user).  A request runs up   *)
(* to its await of getUserByFirebaseUid, and later resumes with the row    *)
(* that select found; other requests run in between.                       *)
(***************************************************************************)
\* const DEV_MODE = true
DEV_MODE == TRUE
DemoUid == "demo-user-123"
DemoEmail == "demo@example.com"

Reqs == 1 .. MaxRequests

\* a request that has not arrived
NoRequest ==
  [ pc |-> "new", route |-> "none", devHeader |-> FALSE, uid |-> Null,
    bodyUid |-> Null, email |-> Null, lookup |-> Null, user |-> Null,
    status |-> 0, handled |-> FALSE, created |-> FALSE ]

\* headers x-dev-mode and x-firebase-uid, body fields firebaseUid and email
GuardedRequests ==
  { [ route |-> "guarded", devHeader |-> d, uid |-> u, bodyUid |-> Null, email |-> Null ] :
      d \in BOOLEAN, u \in { Null, Some("uid-1"), Some("uid-2") } }
AuthUserRequests ==
  { [ route |-> "authUser", devHeader |-> d, uid |-> u, bodyUid |-> b, email |-> e ] :
      d \in BOOLEAN, u \in { Null, Some("uid-1") },
      b \in { Null, Some(DemoUid) }, e \in { Null, Some("one@example.com") } }

\* db.select().from(users).where(eq(users.firebaseUid, firebaseUid))
getUserByFirebaseUid(firebaseUid) ==
  IF \E u \in users : u.firebaseUid = firebaseUid
  THEN Some(CHOOSE u \in users : u.firebaseUid = firebaseUid)
  ELSE Null

\* email and firebaseUid are unique columns: the insert is rejected when a
\* row holds either value already
Insertable(user) ==
  \A u \in users : u.firebaseUid # user.firebaseUid /\ u.email # user.email

\* db.insert(users).values(user).returning(): the row with its serial id
createUser(user) ==
  [ id |-> Cardinality(users) + 1, firebaseUid |-> user.firebaseUid,
    email |-> user.email, role |-> user.role ]

\* the request is answered
Responds(r, code) ==
  reqs' = [ reqs EXCEPT ![r].pc = "done", ![r].status = code ]

\* next(): the route handler runs with req.user and answers
NextHandler(r, row, didCreate) ==
  reqs' = [ reqs EXCEPT ![r].pc = "done", ![r].status = 200, ![r].handled = TRUE,
                        ![r].user = Some(row), ![r].created = didCreate ]

\* the select is on its way: the request waits for the row
AwaitUser(r, req, firebaseUid) ==
  reqs' = [ reqs EXCEPT ![r] = [ NoRequest EXCEPT !.pc = "awaitUser",
                                   !.route = req.route, !.devHeader = req.devHeader,
                                   !.uid = req.uid, !.bodyUid = req.bodyUid,
                                   !.email = req.email,
                                   !.lookup = Some(firebaseUid),
                                   !.user = getUserByFirebaseUid(firebaseUid) ] ]

AuthFrame ==
  /\ UNCHANGED listVars
  /\ UNCHANGED customerVars
  /\ UNCHANGED cacheVars
  /\ UNCHANGED serverVars
  /\ UNCHANGED reportVars
  /\ UNCHANGED clientVars

\* requireAuth, up to the await of getUserByFirebaseUid
RequireAuthSelect(r, req) ==
  /\ reqs[r].pc = "new"
  /\ req.route = "guarded"
  /\ IF DEV_MODE /\ req.devHeader
     THEN AwaitUser(r, req, DemoUid)
     ELSE IF IsNull(req.uid)
     THEN reqs' = [ reqs EXCEPT ![r] = [ NoRequest EXCEPT !.pc = "done", !.route = req.route,
                                         !.devHeader = req.devHeader, !.status = 401 ] ]
     ELSE AwaitUser(r, req, Val(req.uid))
  /\ UNCHANGED users
  /\ AuthFrame

\* requireAuth after the await: next(), 401, or createUser for the demo user
\* (its rejection is caught: 500)
RequireAuthResume(r) ==
  /\ reqs[r].pc = "awaitUser"
  /\ reqs[r].route = "guarded"
  /\ IF DEV_MODE /\ reqs[r].devHeader
     THEN IF ~IsNull(reqs[r].user)
          THEN NextHandler(r, Val(reqs[r].user), FALSE) /\ UNCHANGED users
          ELSE LET demo == [ firebaseUid |-> DemoUid, email |-> DemoEmail, role |-> "admin" ]
               IN  IF Insertable(demo)
                   THEN /\ users' = users \cup { createUser(demo) }
                        /\ NextHandler(r, createUser(demo), TRUE)
                   ELSE Responds(r, 500) /\ UNCHANGED users
     ELSE IF IsNull(reqs[r].user)
          THEN Responds(r, 401) /\ UNCHANGED users
          ELSE NextHandler(r, Val(reqs[r].user), FALSE) /\ UNCHANGED users
  /\ AuthFrame

\* POST /api/auth/user, up to the await of getUserByFirebaseUid
AuthUserSelect(r, req) ==
  /\ reqs[r].pc = "new"
  /\ req.route = "authUser"
  /\ IF DEV_MODE /\ (req.devHeader \/ req.bodyUid = Some(DemoUid))
     THEN AwaitUser(r, req, DemoUid)
     ELSE IF IsNull(req.uid)
     THEN reqs' = [ reqs EXCEPT ![r] = [ NoRequest EXCEPT !.pc = "done", !.route = req.route,
                                         !.devHeader = req.devHeader, !.status = 401 ] ]
     ELSE AwaitUser(r, req, Val(req.uid))
  /\ UNCHANGED users
  /\ AuthFrame

\* the row of a request that answers with the user it found or created
AnswersUser(r, code, row, didCreate) ==
  reqs' = [ reqs EXCEPT ![r].pc = "done", ![r].status = code,
                        ![r].user = Some(row), ![r].created = didCreate ]

\* POST /api/auth/user after the await: res.json(user), or
\* insertUserSchema.parse and createUser, 201; a ZodError is answered with
\* 400 and any other exception with 500 (handleValidationError)
AuthUserResume(r) ==
  /\ reqs[r].pc = "awaitUser"
  /\ reqs[r].route = "authUser"
  /\ IF ~IsNull(reqs[r].user)
     THEN AnswersUser(r, 200, Val(reqs[r].user), FALSE) /\ UNCHANGED users
     ELSE LET dev == DEV_MODE /\ (reqs[r].devHeader \/ reqs[r].bodyUid = Some(DemoUid))
              email == IF dev /\ IsNull(reqs[r].email) THEN Some(DemoEmail) ELSE reqs[r].email
          IN  IF IsNull(email)
              THEN Responds(r, 400) /\ UNCHANGED users
              ELSE LET userData == [ firebaseUid |-> Val(reqs[r].lookup), email |-> Val(email),
                                     role |-> IF dev THEN "admin" ELSE "user" ]
                   IN  IF Insertable(userData)
                       THEN /\ users' = users \cup { createUser(userData) }
                            /\ AnswersUser(r, 201, createUser(userData), TRUE)
                       ELSE Responds(r, 500) /\ UNCHANGED users
  /\ AuthFrame

\* the stores of users the requests start from
UserStores ==
  { {}, { [ id |-> 1, firebaseUid |-> "uid-1", email |-> "one@example.com", role |-> "user" ] } }

\* no request has arrived and nobody has signed in
AuthIdle ==
  /\ users = {}
  /\ reqs = [ r \in Reqs |-> NoRequest ]

(***************************************************************************)
(* SpecAuth: requests to guarded routes and to POST /api/auth/user,        *)
(* interleaved at their awaits.                                            *)
(***************************************************************************)
InitAuth ==
  /\ ServerIdle
  /\ ClientIdle
  /\ ListIdle
  /\ DeleteIdle
  /\ CacheIdle
  /\ users \in UserStores
  /\ reqs = [ r \in Reqs |-> NoRequest ]

NextAuth ==
  \/ \E r \in Reqs, req \in GuardedRequests : RequireAuthSelect(r, req)
  \/ \E r \in Reqs : RequireAuthResume(r)
  \/ \E r \in Reqs, req \in AuthUserRequests : AuthUserSelect(r, req)
  \/ \E r \in Reqs : AuthUserResume(r)

SpecAuth == InitAuth /\ [][NextAuth]_vars

RestIdle == ListIdle /\ AuthIdle /\ DeleteIdle /\ CacheIdle

Init == InitServer /\ ClientIdle /\ RestIdle

Next ==
  \/ DashboardRequest
  \/ CustomerCountAnswer
  \/ TotalSalesAnswer
  \/ TotalDealsAnswer
  \/ WonDealsAnswer
  \/ CurrentMonthCustomersAnswer
  \/ PreviousMonthCustomersAnswer
  \/ ActiveDealsAnswer
  \/ CurrentMonthDealsAnswer
  \/ PreviousMonthDealsAnswer
  \/ UpcomingMeetingsAnswer
  \/ CurrentMonthMeetingsAnswer
  \/ PreviousMonthMeetingsAnswer
  \/ TasksDueTodayAnswer
  \/ CompletedTasksAnswer
  \/ TotalTasksAnswer
  \/ QueryFails
  \/ CreateCustomer
  \/ \E c \in Ids, st \in StageInputs, v \in ValueInputs : CreateDeal(c, st, v)
  \/ \E id \in Ids, st \in StageInputs : UpdateDeal(id, st)
  \/ \E id \in Ids : DeleteDeal(id)
  \/ \E st \in TaskStatusInputs, due \in DueDateInputs : CreateTask(st, due)
  \/ \E id \in Ids, st \in TaskStatusInputs : UpdateTask(id, st)
  \/ \E id \in Ids : DeleteTask(id)
  \/ \E st \in MeetingStatusInputs, t \in StartTimeInputs : CreateMeeting(st, t)
  \/ \E id \in Ids, st \in MeetingStatusInputs : UpdateMeeting(id, st)
  \/ \E id \in Ids : DeleteMeeting(id)
  \/ Tick

Spec == Init /\ [][Next]_vars

(***************************************************************************)
(* GET /api/deals/by-stage (routes.ts, DatabaseStorage.getDealsByStage).   *)
(* The rows of a GROUP BY come in no particular order: a set.              *)
(***************************************************************************)
\* DealsByStageQuery with count(deals.value): a row without value is not counted
DealsByStageQueryCountValues(ds) ==
  { [ stage      |-> s,
      count      |-> Count({ d \in ds : d.stage = s /\ ~IsNull(d.value) }),
      totalValue |-> SumValues({ d \in ds : d.stage = s }) ] : s \in { d.stage : d \in ds } }

\* select stage, count(id)::int, COALESCE(sum(value)::float, 0) from deals
\* group by stage; Number(row.count) || 0, Number(row.totalValue) || 0
DealsByStageQuery(ds) ==
  { [ stage      |-> s,
      count      |-> Count({ d \in ds : d.stage = s }),
      totalValue |-> SumValues({ d \in ds : d.stage = s }) ] : s \in { d.stage : d \in ds } }

\* res.json(dealsByStage)
GetDealsByStage ==
  /\ dealsByStage' = Some(DealsByStageQuery(deals))
  /\ UNCHANGED serverVars
  /\ UNCHANGED calls
  /\ UNCHANGED clientVars
  /\ UNCHANGED restVars

(***************************************************************************)
(* GET /api/tasks/due-today and GET /api/meetings/upcoming                 *)
(* (storage.getTasksDueToday, storage.getUpcomingMeetings).  Rows with     *)
(* equal sort keys come back in an order the database chooses.             *)
(***************************************************************************)
\* the arrays a query with orderBy(asc(key)) can answer with
OrderedBy(rows, key) ==
  { s \in [ 1 .. Cardinality(rows) -> rows ] :
      \A i, j \in DOMAIN s : i < j => (s[i] # s[j] /\ key[s[i]] <= key[s[j]]) }

\* getTasksDueToday with a two-valued not(): a task without status is listed
getTasksDueTodayTwoValued(ts, now) ==
  LET today == StartOfDay(now)
      tomorrow == StartOfNextDay(today)
  IN  OrderedBy({ t \in ts : /\ ~IsNull(t.dueDate)
                             /\ Val(t.dueDate) >= today
                             /\ Val(t.dueDate) < tomorrow
                             /\ t.status # Some("completed")
                             /\ t.status # Some("cancelled") },
                [ t \in ts |-> IF IsNull(t.dueDate) THEN 0 ELSE Val(t.dueDate) ])

\* today = new Date(); today.setHours(0, 0, 0, 0); tomorrow = today + 1 day;
\* select from tasks where(and(gte(dueDate, today), lt(dueDate, tomorrow),
\* not(eq(status, 'completed')), not(eq(status, 'cancelled'))))
\* orderBy(asc(dueDate))
getTasksDueToday(ts, now) ==
  LET today == StartOfDay(now)
      tomorrow == StartOfNextDay(today)
  IN  OrderedBy({ t \in ts : /\ ~IsNull(t.dueDate)
                             /\ Val(t.dueDate) >= today
                             /\ Val(t.dueDate) < tomorrow
                             /\ ~IsNull(t.status)
                             /\ Val(t.status) # "completed"
                             /\ Val(t.status) # "cancelled" },
                [ t \in ts |-> IF IsNull(t.dueDate) THEN 0 ELSE Val(t.dueDate) ])

\* res.json(tasks)
GetTasksDueToday ==
  /\ \E rows \in getTasksDueToday(tasks, clock) :
       tasksDue' = Some([ today |-> StartOfDay(clock), rows |-> rows ])
  /\ UNCHANGED upcoming
  /\ UNCHANGED authVars
  /\ UNCHANGED customerVars
  /\ UNCHANGED cacheVars
  /\ UNCHANGED serverVars
  /\ UNCHANGED reportVars
  /\ UNCHANGED clientVars

\* getUpcomingMeetings without the condition on status
getUpcomingMeetingsAnyStatus(ms, now) ==
  OrderedBy({ m \in ms : m.startTime >= now }, [ m \in ms |-> m.startTime ])

\* now = new Date(); select from meetings where(and(gte(startTime, now),
\* eq(status, 'scheduled'))) orderBy(asc(startTime))
getUpcomingMeetings(ms, now) ==
  OrderedBy({ m \in ms : m.startTime >= now /\ m.status = Some("scheduled") },
            [ m \in ms |-> m.startTime ])

\* res.json(meetings)
GetUpcomingMeetings ==
  /\ \E rows \in getUpcomingMeetings(meetings, clock) :
       upcoming' = Some([ now |-> clock, rows |-> rows ])
  /\ UNCHANGED tasksDue
  /\ UNCHANGED authVars
  /\ UNCHANGED customerVars
  /\ UNCHANGED cacheVars
  /\ UNCHANGED serverVars
  /\ UNCHANGED reportVars
  /\ UNCHANGED clientVars

(***************************************************************************)
(* SpecApi: requests served one after the other.  The store is filled      *)
(* through the create / update / delete routes, then the dashboard asks    *)
(* for its statistics (again and again) and for the deals by stage.        *)
(***************************************************************************)
\* the stages the schema names in its comment
DealStages ==
  { "lead", "qualification", "proposal", "negotiation", "closed_won", "closed_lost" }

\* stage is z.string() in insertDealSchema: any text passes
StageRequests == { "lead", "closed_won", "closed_lost", "archived" }
\* status is a nullable text column: null and any text pass
TaskStatusRequests == { Null, Some("pending"), Some("completed"), Some("cancelled") }
\* no due date, due at the start of the day of ClockStart, due at the start
\* of the day after
DueDateRequests == { Null, Some(NewDate(2024, 0, 31)), Some(NewDate(2024, 1, 1)) }
\* status is a text column: the statuses the schema names, and another text
MeetingStatusRequests ==
  { Some("scheduled"), Some("completed"), Some("cancelled"), Some("rescheduled") }
\* a meeting that started before ClockStart, one that starts a tick after it
StartTimeRequests == { NewDate(2024, 0, 31), NewDate(2024, 1, 1) }

\* GET /api/dashboard/stats once more, after the answer to the request before
DashboardRequestAgain ==
  /\ pc = "done"
  /\ Len(calls) < MaxCalls
  /\ pc' = "customerCountResult"
  /\ loc' = NoLocals
  /\ snapshots' = { Store }
  /\ response' = Null
  /\ failedQuery' = Null
  /\ UNCHANGED clock
  /\ UNCHANGED storeVars
  /\ UNCHANGED clientVars
  /\ UNCHANGED restVars
  /\ UNCHANGED reportVars

NextApi ==
  \/ DashboardRequest
  \/ CustomerCountAnswer
  \/ TotalSalesAnswer
  \/ TotalDealsAnswer
  \/ WonDealsAnswer
  \/ CurrentMonthCustomersAnswer
  \/ PreviousMonthCustomersAnswer
  \/ ActiveDealsAnswer
  \/ CurrentMonthDealsAnswer
  \/ PreviousMonthDealsAnswer
  \/ UpcomingMeetingsAnswer
  \/ CurrentMonthMeetingsAnswer
  \/ PreviousMonthMeetingsAnswer
  \/ TasksDueTodayAnswer
  \/ CompletedTasksAnswer
  \/ TotalTasksAnswer
  \/ DashboardRequestAgain
  \/ pc = "done" /\ GetDealsByStage
  \/ pc = "idle" /\ CreateCustomer
  \/ pc = "idle" /\ \E c \in Ids, st \in StageRequests, v \in ValueInputs : CreateDeal(c, st, v)
  \/ pc = "idle" /\ \E id \in Ids, st \in StageRequests : UpdateDeal(id, st)
  \/ pc = "idle" /\ \E id \in Ids : DeleteDeal(id)
  \/ pc = "idle" /\ \E st \in TaskStatusRequests, due \in DueDateRequests : CreateTask(st, due)
  \/ pc = "idle" /\ \E id \in Ids, st \in TaskStatusRequests : UpdateTask(id, st)
  \/ pc = "idle" /\ \E id \in Ids : DeleteTask(id)
  \/ pc = "idle" /\ \E st \in MeetingStatusInputs, t \in StartTimeInputs : CreateMeeting(st, t)
  \/ pc = "idle" /\ \E id \in Ids, st \in MeetingStatusInputs : UpdateMeeting(id, st)
  \/ pc = "idle" /\ \E id \in Ids : DeleteMeeting(id)
  \/ pc \in { "idle", "done" } /\ Tick

SpecApi == Init /\ [][NextApi]_vars

(***************************************************************************)
(* SpecList: tasks and meetings are created, updated and deleted, then the *)
(* dashboard asks for its statistics and the list routes are called.       *)
(***************************************************************************)
NextList ==
  \/ DashboardRequest
  \/ CustomerCountAnswer
  \/ TotalSalesAnswer
  \/ TotalDealsAnswer
  \/ WonDealsAnswer
  \/ CurrentMonthCustomersAnswer
  \/ PreviousMonthCustomersAnswer
  \/ ActiveDealsAnswer
  \/ CurrentMonthDealsAnswer
  \/ PreviousMonthDealsAnswer
  \/ UpcomingMeetingsAnswer
  \/ CurrentMonthMeetingsAnswer
  \/ PreviousMonthMeetingsAnswer
  \/ TasksDueTodayAnswer
  \/ CompletedTasksAnswer
  \/ TotalTasksAnswer
  \/ pc = "done" /\ GetTasksDueToday
  \/ pc = "done" /\ GetUpcomingMeetings
  \/ pc = "idle" /\ \E st \in TaskStatusRequests, due \in DueDateRequests : CreateTask(st, due)
  \/ pc = "idle" /\ \E id \in Ids, st \in TaskStatusRequests : UpdateTask(id, st)
  \/ pc = "idle" /\ \E id \in Ids : DeleteTask(id)
  \/ pc = "idle" /\ \E st \in MeetingStatusRequests, t \in StartTimeRequests : CreateMeeting(st, t)
  \/ pc = "idle" /\ \E id \in Ids, st \in MeetingStatusRequests : UpdateMeeting(id, st)
  \/ pc = "idle" /\ \E id \in Ids : DeleteMeeting(id)
  \/ pc \in { "idle", "done" } /\ Tick

SpecList == Init /\ [][NextList]_vars

(***************************************************************************)
(* SpecDelete: DELETE /api/customers/:id among other requests.             *)
(***************************************************************************)
NextDelete ==
  \/ \E id \in Ids : DeleteCustomerMeetings(id)
  \/ DeleteCustomer
  \/ CreateCustomer
  \/ \E c \in Ids, st \in StageInputs, v \in ValueInputs : CreateDeal(c, st, v)
  \/ \E id \in Ids : DeleteDeal(id)
  \/ \E st \in MeetingStatusInputs, t \in StartTimeInputs : CreateMeeting(st, t)
  \/ \E id \in Ids : DeleteMeeting(id)
  \/ \E id \in Ids, st \in StageInputs : UpdateDeal(id, st)
  \/ \E id \in Ids, st \in MeetingStatusInputs : UpdateMeeting(id, st)
  \/ Tick

SpecDelete == Init /\ [][NextDelete]_vars

(***************************************************************************)
(* SpecBucket: the SalesByPeriod component over its inputs.                *)
(***************************************************************************)
InitBucket == ServerIdle /\ InitClient /\ RestIdle

NextBucket ==
  \/ \E data \in DealLists : DealsLoaded(data)
  \/ \E value \in PeriodInputs : SetPeriod(value)

SpecBucket == InitBucket /\ [][NextBucket]_vars

(***************************************************************************)
(* Properties of GET /api/dashboard/stats, checked under Spec.             *)
(***************************************************************************)
Answered == pc = "done" /\ IsNull(failedQuery)
Body == Val(response).body

\* C1: within one getDashboardStats call every time-dependent sub-metric uses
\* one instant: the day whose tasks are counted as due today is the calendar
\* day of the `now` used for the monthly windows and the upcoming meetings.
C1_SingleInstant ==
  ~IsNull(loc.todayDate) => Val(loc.todayDate) = StartOfDay(Val(loc.now))

\* the locals of a call whose every query is answered from the store state st,
\* with the instants the call used
SnapshotLocals(st, l) ==
  LET now == Val(l.now)
      today == Val(l.todayDate)
  IN  [ l EXCEPT
          !.customerCount = Count(st.customers),
          !.totalSales = TotalSalesQuery(st.deals),
          !.totalDeals = Count(st.deals),
          !.wonDeals = WonDealsQuery(st.deals),
          !.currentCount = CurrentMonthQuery(st.customers, now),
          !.previousCount = PreviousMonthQuery(st.customers, now),
          !.activeDeals = ActiveDealsQuery(st.deals),
          !.currentDealCount = CurrentMonthQuery(st.deals, now),
          !.previousDealCount = PreviousMonthQuery(st.deals, now),
          !.upcomingMeetings = UpcomingMeetingsQuery(st.meetings, now),
          !.currentMeetingCount = CurrentMonthQuery(st.meetings, now),
          !.previousMeetingCount = PreviousMonthQuery(st.meetings, now),
          !.tasksDueToday = TasksDueTodayQuery(st.tasks, today, StartOfNextDay(today)),
          !.completedTasks = CompletedTasksQuery(st.tasks),
          !.totalTasks = Count(st.tasks) ]

\* C2: every DashboardStats object returned equals the statistics of one single
\* store state that existed at some instant during the call, whatever requests
\* were served between its queries.
C2_PointInTime ==
  Answered => \E st \in snapshots : Body = DashboardStats(SnapshotLocals(st, loc))

\* the fields of loc in the order their queries are awaited
LocalOf ==
  << "customerCount", "totalSales", "totalDeals", "wonDeals", "currentCount",
     "previousCount", "activeDeals", "currentDealCount", "previousDealCount",
     "upcomingMeetings", "currentMeetingCount", "previousMeetingCount",
     "tasksDueToday", "completedTasks", "totalTasks" >>

MetricFields == DOMAIN DashboardStats(NoLocals)

\* C3: when one of the store queries fails the whole call fails: the request is
\* over, it is answered with status 500 and a body without any metric field, and
\* neither the failed query nor any later one has produced a result.
C3_FailureIsWhole ==
  ~IsNull(failedQuery) =>
    /\ pc = "done"
    /\ ~IsNull(response)
    /\ Val(response).status = 500
    /\ DOMAIN Body \cap MetricFields = {}
    /\ \A i \in DOMAIN QueryOrder, j \in DOMAIN QueryOrder :
         (QueryOrder[i] = Val(failedQuery) /\ j >= i) => loc[LocalOf[j]] = NoLocals[LocalOf[j]]

\* a query in the middle of the call failed, after others had answered
C3_Witness ==
  /\ failedQuery = Some("currentMonthDeals")
  /\ loc.customerCount > 0
  /\ ~IsNull(response)

RatioFields ==
  { "customerGrowth", "dealChange", "meetingChange", "taskCompletion",
    "avgDealSize", "winRate", "customerRetentionRate" }

\* C4: every ratio of a returned DashboardStats is exactly 0 when its
\* denominator is 0 (no deals, no tasks, nothing counted for the previous month,
\* no starting customers), and no ratio is NaN or infinite.
C4_ZeroDenominators ==
  Answered =>
    /\ loc.totalDeals = 0 => Body.avgDealSize = Finite(0) /\ Body.winRate = Finite(0)
    /\ loc.totalTasks = 0 => Body.taskCompletion = Finite(0)
    /\ loc.previousCount = 0 => Body.customerGrowth = Finite(0)
    /\ loc.previousDealCount = 0 => Body.dealChange = Finite(0)
    /\ loc.previousMeetingCount = 0 => Body.meetingChange = Finite(0)
    /\ loc.customerCount - loc.currentCount = 0 => Body.customerRetentionRate = Finite(0)
    /\ (\A st \in snapshots : st.deals = {}) =>
         Body.avgDealSize = Finite(0) /\ Body.winRate = Finite(0)
    /\ (\A st \in snapshots : st.tasks = {}) => Body.taskCompletion = Finite(0)
    /\ \A f \in RatioFields : Body[f].kind = "finite"

\* a call answered from a store without deals, tasks or earlier customers
C4_Witness ==
  /\ Answered
  /\ loc.totalDeals = 0
  /\ loc.totalTasks = 0
  /\ loc.previousCount = 0
  /\ loc.customerCount = loc.currentCount
  /\ Body.winRate = Finite(0)

(***************************************************************************)
(* Properties of getSalesByPeriod, checked under SpecBucket.               *)
(***************************************************************************)
Loaded == ~IsNull(dealsData) /\ Len(Val(dealsData)) > 0

\* the last day of the calendar month that contains instant t
LastDayOfMonth(t) == MakeDay(getFullYear(t), getMonth(t) + 1, 1) - 1

SameMonth(t, u) == getFullYear(t) = getFullYear(u) /\ getMonth(t) = getMonth(u)

\* C5: in the monthly bucketing a deal created on the last calendar day of a
\* bucket's month, at any time of that day, is counted in that month's bucket
\* and in no bucket of another month.
C5_LastDayOfMonthCounted ==
  (Loaded /\ period = "monthly") =>
    \A n \in DOMAIN Val(dealsData), k \in DOMAIN periods :
      LET deal == Val(dealsData)[n]
          at == Val(deal.createdAt)
      IN  (SameMonth(at, periods[k].startDate) /\ DayOf(at) = LastDayOfMonth(at)) =>
            /\ InPeriod(deal, periods[k])
            /\ \A j \in DOMAIN periods :
                 InPeriod(deal, periods[j]) => SameMonth(periods[j].startDate, at)

\* the deals created within the window the buckets cover
DealsInWindow ==
  { n \in DOMAIN Val(dealsData) :
      /\ Val(Val(dealsData)[n].createdAt) >= periods[1].startDate
      /\ Val(Val(dealsData)[n].createdAt) <= periods[Len(periods)].endDate }

RECURSIVE SumCounts(_, _)
SumCounts(ps, n) == IF n = 0 THEN 0 ELSE SumCounts(ps, n - 1) + ps[n].count

\* C6: for every granularity the bucket ranges are non-overlapping and
\* exhaustive over the covered window: each deal created between the first
\* bucket's start and the last bucket's end is counted in exactly one bucket,
\* and the bucket counts sum to the number of such deals.
C6_ExactlyOneBucket ==
  (Loaded /\ period \in PeriodTypes) =>
    /\ \A n \in DealsInWindow :
         Cardinality({ k \in DOMAIN periods : InPeriod(Val(dealsData)[n], periods[k]) }) = 1
    /\ SumCounts(periods, Len(periods)) = Cardinality(DealsInWindow)

\* the first instant of the calendar month i months before the month of now
MonthBefore(now, i) == NewDate(getFullYear(now), getMonth(now) - i, 1)

\* C7: for period = monthly and every now the six buckets are the six distinct
\* consecutive calendar months ending with the month of now, oldest first, each
\* labelled with its month and spanning that month.
C7_SixConsecutiveMonths ==
  (Loaded /\ period = "monthly") =>
    /\ Len(periods) = 6
    /\ \A k \in 1..6 :
         LET first == MonthBefore(browserNow, 6 - k)
         IN  /\ chartData[k].name = MonthShort[getMonth(first) + 1]
             /\ periods[k].startDate = first
             /\ DayOf(periods[k].endDate) = LastDayOfMonth(first)

\* the number of buckets of each granularity
BucketCount(p) ==
  IF p = "weekly" THEN 8
  ELSE IF p = "monthly" THEN 6
  ELSE IF p = "quarterly" THEN 4
  ELSE 5

EmptyLoaded == ~IsNull(dealsData) /\ Len(Val(dealsData)) = 0

C10_BucketCounts ==
  (Loaded /\ period \in PeriodTypes) => Len(chartData) = BucketCount(period)

\* deals have arrived and the yearly buckets are shown
C10_Witness ==
  /\ Loaded
  /\ period = "yearly"
  /\ Len(chartData) = 5


(***************************************************************************)
(* Shape of the buckets.                                                   *)
(***************************************************************************)
Days(n) == n * TicksPerDay

\* C11: for period = weekly and every now, bucket k (k = 1..8, labelled
\* "Week k") spans [now - (9-k)*7 days, now - (8-k)*7 days] at the time of
\* day of now: the newest bucket ends at now, the oldest starts 56 days before
\* now and every bucket starts where the bucket before it ends.
C11_WeeklyRolling ==
  (Loaded /\ period = "weekly") =>
    /\ Len(periods) = 8
    /\ \A k \in 1..8 :
         /\ periods[k].name = "Week " \o ToString(k)
         /\ periods[k].startDate = browserNow - Days((9 - k) * 7)
         /\ periods[k].endDate = browserNow - Days((8 - k) * 7)
         /\ TimeOfDay(periods[k].startDate) = TimeOfDay(browserNow)
    /\ periods[8].endDate = browserNow
    /\ periods[1].startDate = browserNow - Days(56)
    /\ \A k \in 2..8 : periods[k].startDate = periods[k - 1].endDate

\* weekly buckets computed in the afternoon of the first days of March of a
\* leap year: the windows reach back over the ends of February and January
C11_Witness ==
  /\ Loaded
  /\ period = "weekly"
  /\ getMonth(browserNow) = 2
  /\ getDate(browserNow) <= 7
  /\ TimeOfDay(browserNow) > 0
  /\ Len(periods) = 8
  /\ getMonth(periods[1].startDate) = 0


\* quarters counted from year 0: quarter n (1..4) of year y has number 4y + n - 1
QuarterNumber(t) == 4 * getFullYear(t) + getMonth(t) \div 3

\* C12: for period = quarterly and every now the four buckets are the four
\* distinct consecutive calendar quarters ending with the quarter of now, each
\* labelled "Q<n> <year>" with n in 1..4 (the year before now's for the
\* quarters that wrap past Q1) and each starting on the first day of its quarter.
C12_FourConsecutiveQuarters ==
  (Loaded /\ period = "quarterly") =>
    /\ Len(periods) = 4
    /\ \A k \in 1..4 :
         LET j == QuarterNumber(browserNow) - (4 - k)
             n == (j % 4) + 1
             year == j \div 4
         IN  /\ periods[k].name = "Q" \o ToString(n) \o " " \o ToString(year)
             /\ periods[k].startDate = NewDate(year, 3 * (n - 1), 1)
             /\ QuarterNumber(periods[k].startDate) = j
             /\ year = getFullYear(browserNow) - (IF n > (getMonth(browserNow) \div 3) + 1 THEN 1 ELSE 0)
    /\ \A k \in 1..4, l \in 1..4 : k # l => periods[k].name # periods[l].name

\* quarterly buckets computed in February: three of them lie in the year before
C12_Witness ==
  /\ Loaded
  /\ period = "quarterly"
  /\ getMonth(browserNow) = 1
  /\ Len(periods) = 4
  /\ periods[1].name = "Q2 2023"
  /\ periods[4].name = "Q1 2024"


\* C13: for every granularity and every now the buckets are ordered oldest
\* first, newest last: no bucket starts earlier than the bucket before it, and
\* the last bucket is the one that contains now.
C13_OldestFirst ==
  (Loaded /\ period \in PeriodTypes) =>
    /\ \A k \in 2..Len(periods) : periods[k].startDate >= periods[k - 1].startDate
    /\ periods[Len(periods)].startDate <= browserNow
    /\ browserNow <= periods[Len(periods)].endDate


(***************************************************************************)
(* The statistics against the store they were computed from (SpecApi: the  *)
(* store does not change once the first dashboard request is made).        *)
(***************************************************************************)
\* the value of the deal with the given id, 0 when it has none or is absent
ValueOfDeal(id) ==
  LET ds == { d \in deals : d.id = id /\ ~IsNull(d.value) }
  IN  IF ds = {} THEN 0 ELSE Val((CHOOSE d \in ds : TRUE).value)

\* the values of the deals with ids 1..n added up, in thousandths
RECURSIVE ValueOfDealsUpTo(_)
ValueOfDealsUpTo(n) == IF n = 0 THEN 0 ELSE ValueOfDealsUpTo(n - 1) + ValueOfDeal(n)

SumOfDealValues == ValueOfDealsUpTo(nextId.deals - 1)

\* C14 as stated: totalSales of a returned DashboardStats equals the sum of
\* value over all stored deals (a deal without value contributing 0), and is 0
\* when there are no deals.
C14_TotalSalesIsSum ==
  Answered =>
    /\ Body.totalSales * 10 = SumOfDealValues
    /\ deals = {} => Body.totalSales = 0

\* C14 amended: totalSales of a returned DashboardStats equals the sum of value
\* over all stored deals (a deal without value contributing 0) rounded to two
\* decimal places, and is 0 when there are no deals.
C14_TotalSalesIsRoundedSum ==
  Answered =>
    /\ Body.totalSales = RoundDiv(SumOfDealValues, 10)
    /\ deals = {} => Body.totalSales = 0

\* statistics returned for a store of two deals, one of them without value
C14_Witness ==
  /\ Answered
  /\ Cardinality(deals) = 2
  /\ \E d \in deals : IsNull(d.value)
  /\ \E d \in deals : ~IsNull(d.value)
  /\ Body.totalSales = 10000


WithStage(S) == Cardinality({ d \in deals : d.stage \in S })

\* C15: for every store state reachable through the API, activeDeals is the
\* number of deals whose stage is lead, qualification, proposal or negotiation,
\* and that is the number of deals that are neither closed_won nor closed_lost:
\* activeDeals + count(closed_won) + count(closed_lost) = number of deals.
C15_ActiveDealsPartition ==
  Answered =>
    /\ Body.activeDeals = WithStage({ "lead", "qualification", "proposal", "negotiation" })
    /\ Body.activeDeals + WithStage({ "closed_won" }) + WithStage({ "closed_lost" })
         = Cardinality(deals)

\* C16: after any sequence of POST /api/deals and PUT /api/deals/:id requests
\* the stage of every stored deal is one of lead, qualification, proposal,
\* negotiation, closed_won, closed_lost: a request with another stage is
\* rejected and leaves the store unchanged.
C16_StageIsEnumerated == \A d \in deals : d.stage \in DealStages


\* local midnight of the day of now, and of the calendar day after
StartOfToday == DayOf(Val(loc.now)) * TicksPerDay
StartOfTomorrow == (DayOf(Val(loc.now)) + 1) * TicksPerDay

\* C17: tasksDueToday counts exactly the tasks whose due date d satisfies
\* startOfToday <= d < startOfTomorrow and whose status is neither completed
\* nor cancelled, a task without status counting as not completed; a task due
\* exactly at startOfTomorrow and a task without due date are not counted.
C17_TasksDueToday ==
  Answered =>
    Body.tasksDueToday =
      Cardinality({ t \in tasks :
                      /\ ~IsNull(t.dueDate)
                      /\ StartOfToday <= Val(t.dueDate)
                      /\ Val(t.dueDate) < StartOfTomorrow
                      /\ t.status \notin { Some("completed"), Some("cancelled") } })


(***************************************************************************)
(* The retention rate, among concurrent requests (Spec).                   *)
(***************************************************************************)
\* C18: customerRetentionRate is (endCount - newCount) / startingCount * 100
\* with startingCount = endCount - newCount, and 0 when startingCount is 0: in
\* every returned DashboardStats, whatever the store and the interleaving, it
\* is exactly 0 or exactly 100.
C18_RetentionIsZeroOrHundred ==
  Answered =>
    LET startingCount == loc.customerCount - loc.currentCount
    IN  /\ Body.customerCount = loc.customerCount
        /\ startingCount = 0 => Body.customerRetentionRate = Finite(0)
        /\ startingCount # 0 => Body.customerRetentionRate = Finite(1000)
        /\ Body.customerRetentionRate \in { Finite(0), Finite(1000) }

\* a customer was created between the count of all customers and the count of
\* this month's customers: more new customers than customers
C18_Witness ==
  /\ Answered
  /\ loc.customerCount < loc.currentCount
  /\ Body.customerRetentionRate = Finite(1000)


(***************************************************************************)
(* GET /api/deals/by-stage against the store (SpecApi).                    *)
(***************************************************************************)
RECURSIVE SumOfField(_, _)
SumOfField(rows, f) ==
  IF rows = {} THEN 0
  ELSE LET r == CHOOSE x \in rows : TRUE
       IN  r[f] + SumOfField(rows \ { r }, f)

\* C19: for every store state getDealsByStage returns one row per distinct
\* stage present among the deals, never a row with count 0; the counts of the
\* rows sum to the number of deals and the totalValue fields to the total of
\* the deal values.
C19_DealsByStage ==
  ~IsNull(dealsByStage) =>
    LET rows == Val(dealsByStage)
    IN  /\ { r.stage : r \in rows } = { d.stage : d \in deals }
        /\ \A r1 \in rows, r2 \in rows : r1.stage = r2.stage => r1 = r2
        /\ \A r \in rows : r.count > 0
        /\ SumOfField(rows, "count") = Cardinality(deals)
        /\ SumOfField(rows, "totalValue") = SumOfDealValues

\* rows returned for deals of two stages, one of the deals without value
C19_Witness ==
  /\ ~IsNull(dealsByStage)
  /\ Cardinality(Val(dealsByStage)) = 2
  /\ Cardinality(deals) = 2
  /\ \E d \in deals : IsNull(d.value)


C22_DueTodayCountIsListLength ==
  (Answered /\ ~IsNull(tasksDue) /\ Val(tasksDue).today = Val(loc.todayDate))
    => Body.tasksDueToday = Len(Val(tasksDue).rows)

\* both have answered on the same day, the list holds a task, and the store
\* holds a task that is not listed
C22_Witness ==
  /\ Answered
  /\ ~IsNull(tasksDue)
  /\ Val(tasksDue).today = Val(loc.todayDate)
  /\ Len(Val(tasksDue).rows) = 1
  /\ Body.tasksDueToday = 1
  /\ Cardinality(tasks) > 1


\* C30: upcomingMeetings is the number of meetings that are scheduled and
\* start at or after the now of the call: no meeting with another status and
\* no meeting that started before now is counted; and when
\* GET /api/meetings/upcoming has read the same store at the same clock
\* reading, it is the number of meetings that route returned
C30_UpcomingMeetings ==
  Answered =>
    LET now == Val(loc.now)
        notCounted == { m \in meetings : \/ m.status \in { Some("completed"), Some("cancelled"),
                                                          Some("rescheduled"), Null }
                                         \/ m.startTime < now }
    IN  /\ Body.upcomingMeetings = Cardinality(meetings \ notCounted)
        /\ \A m \in meetings \ notCounted : m.status = Some("scheduled") /\ m.startTime >= now
        /\ (~IsNull(upcoming) /\ Val(upcoming).now = now)
             => Body.upcomingMeetings = Len(Val(upcoming).rows)

\* both have answered at the same clock reading; one meeting is counted and
\* listed, another one is not because of its status or its start
C30_Witness ==
  /\ Answered
  /\ ~IsNull(upcoming)
  /\ Val(upcoming).now = Val(loc.now)
  /\ Body.upcomingMeetings = 1
  /\ Len(Val(upcoming).rows) = 1
  /\ \E m \in meetings : m.status # Some("scheduled") \/ m.startTime < Val(loc.now)


(***************************************************************************)
(* Properties of the monthly windows, checked under SpecApi.               *)
(***************************************************************************)
\* the rows created from the first instant of the month before the call's
\* now up to now
CreatedSincePreviousMonth(rows) ==
  { r \in rows : /\ r.createdAt >= firstDayPreviousMonth(Val(loc.now))
                 /\ r.createdAt <= Val(loc.now) }

\* C23: every customer, deal and meeting created between the first instant
\* of the previous calendar month and now is counted in exactly one of the
\* previous-month count and the current-month count of its table: the two
\* counts add up to the number of these rows
C23_MonthWindowsCoverAndDisjoint ==
  Answered =>
    /\ loc.previousCount + loc.currentCount
         = Cardinality(CreatedSincePreviousMonth(customers))
    /\ loc.previousDealCount + loc.currentDealCount
         = Cardinality(CreatedSincePreviousMonth(deals))
    /\ loc.previousMeetingCount + loc.currentMeetingCount
         = Cardinality(CreatedSincePreviousMonth(meetings))


(***************************************************************************)
(* Properties of the ratios among concurrent requests, checked under Spec. *)
(***************************************************************************)
\* the percentages of 0 and of 100, in tenths of a percent
InPercentRange(q) == q.kind = "finite" /\ q.v >= 0 /\ q.v <= 1000

\* C24: in every DashboardStats returned, winRate and taskCompletion lie
\* between 0 and 100, whatever other requests did between the queries
C24_RatesWithinRange ==
  Answered => InPercentRange(Body.winRate) /\ InPercentRange(Body.taskCompletion)


(***************************************************************************)
(* Properties of authentication, checked under SpecAuth.                   *)
(***************************************************************************)
\* C25: a request to a guarded route reaches its handler only if its
\* x-firebase-uid header is the firebaseUid of a user that was in the store
\* when requireAuth looked it up; requireAuth never adds a row to the store
C25_HandlerOnlyForKnownUser ==
  \A r \in Reqs :
    reqs[r].route = "guarded" =>
      /\ reqs[r].handled =>
           /\ ~IsNull(reqs[r].uid)
           /\ ~IsNull(reqs[r].user)
           /\ Val(reqs[r].user).firebaseUid = Val(reqs[r].uid)
      /\ ~reqs[r].created


\* request r looks a user up and creates it when absent
GetsOrCreates(r) ==
  /\ ~IsNull(reqs[r].lookup)
  /\ reqs[r].route = "authUser" \/ (DEV_MODE /\ reqs[r].devHeader)

\* the e-mail address request r would insert
EmailOf(r) ==
  IF DEV_MODE /\ (reqs[r].devHeader \/ reqs[r].bodyUid = Some(DemoUid)) /\ IsNull(reqs[r].email)
  THEN Some(DemoEmail)
  ELSE IF reqs[r].route = "guarded" THEN Some(DemoEmail) ELSE reqs[r].email

\* C26: every answered get-or-create request with a valid body, whose
\* e-mail address is not held by a user with another firebaseUid, has
\* succeeded (its status is not 500), and exactly one row with its
\* firebaseUid exists, whatever requests ran between its select and its
\* insert
C26_GetOrCreateIsSafe ==
  \A r \in Reqs :
    ( /\ reqs[r].pc = "done"
      /\ GetsOrCreates(r)
      /\ ~IsNull(EmailOf(r))
      /\ ~\E u \in users : u.email = Val(EmailOf(r)) /\ u.firebaseUid # Val(reqs[r].lookup) )
    => /\ reqs[r].status # 500
       /\ Cardinality({ u \in users : u.firebaseUid = Val(reqs[r].lookup) }) = 1


(***************************************************************************)
(* Properties of DELETE /api/customers/:id, checked under SpecDelete.      *)
(***************************************************************************)
\* C27: when DELETE /api/customers/:id is answered with a status other than
\* 204, the request has deleted no row: the customer is still there and so
\* are its meetings
C27_DeleteIsAllOrNothing ==
  (del.pc = "done" /\ del.status # 204) => del.deleted = {}


(***************************************************************************)
(* The browser's queries (lib/queryClient.ts: getQueryFn, queryClient) and *)
(* the GET routes that answer them.  A GET is answered in one step here;   *)
(* the interleavings inside getDashboardStats are the subject of Spec.     *)
(***************************************************************************)
\* parseInt(req.params.id)
parseInt(s) == CASE s = "1" -> 1 [] s = "2" -> 2 [] s = "3" -> 3

\* the path built from every segment of the key
JoinedPath(queryKey) == queryKey

\* fetch(queryKey[0] as string, ...): the path that is requested
RequestedPath(queryKey) == << queryKey[1] >>

\* getDashboardStats with every query answered from the store as it is
StatsNow ==
  DashboardStats(SnapshotLocals(Store, [ NoLocals EXCEPT !.now = Some(clock),
                                                         !.todayDate = Some(StartOfDay(clock)) ]))

\* the GET routes: /api/dashboard/stats, /api/deals/by-stage, /api/deals,
\* /api/deals/:id and /api/deals/:dealId/tasks
Get(path) ==
  IF path = StatsKey
  THEN [ status |-> 200, kind |-> "stats", body |-> StatsNow ]
  ELSE IF path = ByStageKey
  THEN [ status |-> 200, kind |-> "dealsByStage", body |-> DealsByStageQuery(deals) ]
  ELSE IF path = << "/api/deals" >>
  THEN [ status |-> 200, kind |-> "deals", body |-> deals ]
  ELSE IF Len(path) = 2
  THEN IF \E d \in deals : d.id = parseInt(path[2])
       THEN [ status |-> 200, kind |-> "deal",
              body |-> CHOOSE d \in deals : d.id = parseInt(path[2]) ]
       ELSE [ status |-> 404, kind |-> "message", body |-> "Deal not found" ]
  ELSE [ status |-> 200, kind |-> "tasks",
         body |-> { t \in tasks : t.dealId = Some(parseInt(path[2])) } ]

ClientFrame ==
  /\ UNCHANGED serverVars
  /\ UNCHANGED reportVars
  /\ UNCHANGED clientVars
  /\ UNCHANGED listVars
  /\ UNCHANGED authVars
  /\ UNCHANGED customerVars

\* staleTime: Infinity: a query with data is fetched again only once it has
\* been invalidated; a query without data is fetched when a component mounts
NeedsFetch(q) == q.status # "success" \/ q.isInvalidated

\* a component with this key mounts (or is mounted while the query is
\* invalidated): the query function sends its request
QueryFetches(key) ==
  /\ cache[key].fetchStatus = "idle"
  /\ NeedsFetch(cache[key])
  /\ cache' = [ cache EXCEPT ![key].fetchStatus = "fetching",
                             ![key].url = RequestedPath(key) ]
  /\ UNCHANGED mut
  /\ ClientFrame

\* the route answers: res.json() becomes the data, or throwIfResNotOk throws
QuerySettles(key) ==
  /\ cache[key].fetchStatus = "fetching"
  /\ LET res == Get(cache[key].url)
     IN  cache' = [ cache EXCEPT ![key] =
                      IF res.status = 200
                      THEN [ status |-> "success",
                             data |-> Some([ kind |-> res.kind, body |-> res.body ]),
                             isInvalidated |-> FALSE, fetchStatus |-> "idle",
                             url |-> @.url, asOf |-> mutations ]
                      ELSE [ @ EXCEPT !.status = "error", !.fetchStatus = "idle" ] ]
  /\ UNCHANGED mut
  /\ ClientFrame

\* the route answers 500 (a query of the store was rejected): throwIfResNotOk
\* throws, retry is false, the data fetched before stays in the cache
QueryRejects(key) ==
  /\ cache[key].fetchStatus = "fetching"
  /\ cache' = [ cache EXCEPT ![key].status = "error", ![key].fetchStatus = "idle" ]
  /\ UNCHANGED mut
  /\ ClientFrame

(***************************************************************************)
(* The deal mutations of DealForm (create, update) and DealDetail (delete).*)
(***************************************************************************)
\* mutationFn: apiRequest sends POST /api/deals, PUT or DELETE /api/deals/:id
SubmitDeal(kind, id) ==
  /\ mut.pc # "sent"
  /\ Admitted
  /\ mut' = [ pc |-> "sent", seen |-> mutations, kind |-> kind, id |-> id ]
  /\ UNCHANGED cache
  /\ ClientFrame

\* the request of the mutation has not been served yet
Pending(kind) == mut.pc = "sent" /\ mut.kind = kind /\ mutations = mut.seen

\* queryClient.invalidateQueries({ queryKey }): the filter matches every
\* query whose key starts with queryKey
Matches(filterKey, key) ==
  Len(filterKey) <= Len(key) /\ SubSeq(key, 1, Len(filterKey)) = filterKey

\* the keys the onSuccess handlers invalidate: ["/api/deals"], and
\* ["/api/deals", deal.id.toString()] after an update (the keys under
\* "/api/customers" match no query of QueryKeys)
InvalidatedKeys(m) ==
  IF m.kind = "update" THEN { << "/api/deals" >>, DealKey(IF m.id = 1 THEN "1" ELSE "2") }
  ELSE { << "/api/deals" >> }

\* onSuccess of createMutation, updateMutation, deleteMutation
DealMutationSucceeds ==
  /\ mut.pc = "sent"
  /\ mutations > mut.seen
  /\ cache' = [ k \in QueryKeys |->
                  IF cache[k].status # "pending" /\ \E f \in InvalidatedKeys(mut) : Matches(f, k)
                  THEN [ cache[k] EXCEPT !.isInvalidated = TRUE ]
                  ELSE cache[k] ]
  /\ mut' = [ mut EXCEPT !.pc = "success" ]
  /\ ClientFrame

\* onError: the request was answered with an error; a toast, nothing else
DealMutationFails ==
  /\ Pending(mut.kind)
  /\ mut' = [ mut EXCEPT !.pc = "error" ]
  /\ UNCHANGED cache
  /\ ClientFrame

(***************************************************************************)
(* What the Dashboard and the Reports pages render from the stats query.   *)
(***************************************************************************)
\* const defaultStats of Dashboard
defaultStats ==
  [ customerCount |-> 0, customerGrowth |-> 0, activeDeals |-> 0, dealChange |-> 0,
    upcomingMeetings |-> 0, meetingChange |-> 0, tasksDueToday |-> 0, totalTasks |-> 0,
    taskCompletion |-> 0, totalSales |-> 0, avgDealSize |-> 0, winRate |-> 0 ]

\* const defaultStats of Reports
defaultStatsReports ==
  [ customerCount |-> 0, customerGrowth |-> 0, activeDeals |-> 0, dealChange |-> 0,
    upcomingMeetings |-> 0, meetingChange |-> 0, tasksDueToday |-> 0, totalTasks |-> 0,
    taskCompletion |-> 0, totalSales |-> 0, avgDealSize |-> 0, winRate |-> 0,
    customerRetentionRate |-> 0 ]

\* isLoading of useQuery: no data and no error yet
isLoading(q) == q.status = "pending"

\* Dashboard: dashboardStats = stats || defaultStats; every card shows
\* isLoadingStats ? "Loading..." : dashboardStats.<metric>
Dashboard(q) ==
  IF isLoading(q) THEN [ shows |-> "Loading...", stats |-> defaultStats ]
  ELSE [ shows |-> "metrics",
         stats |-> IF IsNull(q.data) THEN defaultStats ELSE Val(q.data).body ]

\* Reports: the same with its own defaultStats
Reports(q) ==
  IF isLoading(q) THEN [ shows |-> "Loading...", stats |-> defaultStatsReports ]
  ELSE [ shows |-> "metrics",
         stats |-> IF IsNull(q.data) THEN defaultStatsReports ELSE Val(q.data).body ]

(***************************************************************************)
(* SpecClient: the browser's queries and deal mutations against the        *)
(* server, time passing.                                                   *)
(***************************************************************************)
NextClient ==
  \/ \E key \in QueryKeys : QueryFetches(key)
  \/ \E key \in QueryKeys : QuerySettles(key)
  \/ \E key \in QueryKeys : QueryRejects(key)
  \/ \E kind \in { "create", "update", "delete" }, id \in Ids : SubmitDeal(kind, id)
  \/ Pending("create") /\ \E c \in Ids, st \in StageInputs, v \in ValueInputs : CreateDeal(c, st, v)
  \/ Pending("update") /\ \E st \in StageInputs : UpdateDeal(mut.id, st)
  \/ Pending("delete") /\ DeleteDeal(mut.id)
  \/ DealMutationSucceeds
  \/ DealMutationFails

SpecClient == Init /\ [][NextClient]_vars


(***************************************************************************)
(* Properties of the browser's queries, checked under SpecClient.          *)
(***************************************************************************)
\* C21: when the request for the dashboard statistics has failed, the
\* Dashboard and the Reports pages show an error state, and no metric values
C21_FailureShowsErrorState ==
  cache[StatsKey].status = "error" =>
    /\ Dashboard(cache[StatsKey]).shows = "could not load metrics"
    /\ Reports(cache[StatsKey]).shows = "could not load metrics"

\* C28: once a deal mutation has succeeded and its onSuccess handler has run,
\* the cached results of '/api/dashboard/stats' and '/api/deals/by-stage'
\* that were read before the mutation are invalidated
C28_DealMutationInvalidatesDashboard ==
  \A key \in { StatsKey, ByStageKey } :
    ( /\ mut.pc = "success"
      /\ cache[key].status = "success"
      /\ cache[key].fetchStatus = "idle"
      /\ cache[key].asOf < mutations )
    => cache[key].isInvalidated

\* C29: the query function requests the path made of every segment of the
\* key, and a query that has succeeded since the last mutation holds the
\* resource that path names: the tasks of the deal for
\* ['/api/deals', dealId, 'tasks'], the single deal for ['/api/deals', dealId]
C29_WholeKeyIsRequested ==
  \A key \in QueryKeys :
    /\ cache[key].url # << >> => cache[key].url = JoinedPath(key)
    /\ (cache[key].status = "success" /\ cache[key].asOf = mutations)
         => /\ Val(cache[key].data).kind = Get(JoinedPath(key)).kind
            /\ Val(cache[key].data).body = Get(JoinedPath(key)).body

====
